---- MODULE Spec2Model ----
(***************************************************************************)
(* Model of the Local AI Package service tooling:                          *)
(*   src/start_services_enhanced.py  (ServiceManager and main)             *)
(*   src/configure_services.py       (ServiceConfigurator, interactive)    *)
(*                                                                         *)
(* Python dicts are modelled as functions whose DOMAIN is the set of keys  *)
(* present (so d.get(k, default) can be told from d[k]); the ordered dict  *)
(* config['services'] is a sequence of service records that carry their    *)
(* key in the field "name".  Text that the code builds with f-strings is   *)
(* built here with \o and ToString, so that output is compared as text.    *)
(***************************************************************************)
EXTENDS Integers, Sequences, FiniteSets, TLC

VARIABLES
    storage,           \* the persisted registry, services.json
    config,            \* ServiceConfigurator.config of the interactive session
    menu,              \* position of the interactive session
    last_op,           \* the last interactive operation and what it printed
    ops,               \* number of interactive operations performed
    pc,                \* position of main() / the last ServiceManager call
    args,              \* argparse result of main()
    sm,                \* ServiceManager.config (loaded and substituted)
    vres,              \* outcome of validate_config: return value and print
    enabled_services,  \* result of get_enabled_services
    written,           \* files written by the run, filename -> content
    driver             \* external commands invoked by the run, in order

vars == <<storage, config, menu, last_op, ops, pc, args, sm, vres, enabled_services,
          written, driver>>

-----------------------------------------------------------------------------
(* Bounds of the model *)

\* largest number of port mappings declared in one registry (all services)
MaxPorts == 3

\* largest number of operations performed in one interactive session
MaxOps == 3

\* largest number of calls of validate_config on one manager
MaxCalls == 2

-----------------------------------------------------------------------------
(* Python helpers *)

\* d.get(k, default)
Get(d, k, default) == IF k \in DOMAIN d THEN d[k] ELSE default

\* the empty dict {}
EmptyDict == <<>>

\* x in list
InList(x, list) == \E i \in 1..Len(list) : list[i] = x

\* truthiness of a str argument: None and '' are both falsy
Truthy(s) == s # ""

TOKEN == "${default_host_ip}"

-----------------------------------------------------------------------------
(* The registries the model draws its inputs from *)

Names == <<"web", "caddy", "admin">>

P443 == [host_ip |-> "0.0.0.0", host_port |-> 443, container_port |-> 8443]
P8000 == [host_ip |-> "127.0.0.1", host_port |-> 8000, container_port |-> 80,
          protocol |-> "tcp"]
PTok == [host_ip |-> TOKEN, host_port |-> 8000, container_port |-> 81,
         protocol |-> "udp"]

PortChoices == {P443, P8000, PTok}

PortLists == UNION {[1..k -> PortChoices] : k \in 0..MaxPorts}

\* the port lists of the three services: one list cut in three
PortAssignments ==
    {<<SubSeq(L, 1, i), SubSeq(L, i + 1, j), SubSeq(L, j + 1, Len(L))>> :
        <<L, i, j>> \in {t \in PortLists \X (0..MaxPorts) \X (0..MaxPorts) :
                            t[2] <= t[3] /\ t[3] <= Len(t[1])}}

\* "enabled" of web, caddy, admin; for admin FALSE is stored as an absent key
EnabledChoices == [1..3 -> BOOLEAN]

IncludedChoices == {<<>>, <<"caddy">>, <<"web", "admin">>}

GlobalSection == [project_name |-> "localai", default_host_ip |-> "127.0.0.1"]

WebService(en, ports) ==
    [name |-> "web", enabled |-> en, ports |-> ports, profiles |-> <<"cpu">>,
     reverse_proxy |-> TRUE, supabase |-> TRUE]

CaddyService(en, ports) ==
    [name |-> "caddy", enabled |-> en, ports |-> ports]

AdminService(en, ports) ==
    ("name" :> "admin") @@ ("profiles" :> <<"gpu-nvidia">>)
    @@ ("reverse_proxy" :> TRUE)
    @@ (IF en THEN ("enabled" :> TRUE) ELSE EmptyDict)
    @@ (IF ports # <<>> THEN ("ports" :> ports) ELSE EmptyDict)

FullRegistry(pa, en, inc) ==
    [global |-> GlobalSection,
     services |-> <<WebService(en[1], pa[1]), CaddyService(en[2], pa[2]),
                    AdminService(en[3], pa[3])>>,
     profiles |-> [cpu |-> [included_services |-> inc]]]

\* a registry that holds the token as an item of a list as well
TokenRegistry(pa) == FullRegistry(pa, [i \in 1..3 |-> TRUE], <<TOKEN>>)

\* the dict without key k
Without(d, k) == [x \in DOMAIN d \ {k} |-> d[x]]

Sections == {"global", "services", "profiles"}

\* the section left out of a registry, "" for none
Drops == Sections \cup {""}

\* registries lacking a section are drawn with an empty included_services
\* and every service enabled
Registry(pa, en, inc, drop) ==
    IF drop = "" THEN FullRegistry(pa, en, inc)
    ELSE Without(FullRegistry(pa, [i \in 1..3 |-> TRUE], <<>>), drop)

-----------------------------------------------------------------------------
(* ServiceManager, src/start_services_enhanced.py *)

\* str.replace('${default_host_ip}', default_host_ip) on the strings of the
\* model: a string either is the token or does not contain it
ReplaceToken(s, default_host_ip) == IF s = TOKEN THEN default_host_ip ELSE s

\* mutant: the items of a list are not visited
SubstituteList_Unvisited(list, d) == list

SubstituteList(list, d) == [i \in DOMAIN list |-> ReplaceToken(list[i], d)]

SubstitutePort(p, d) ==
    [k \in DOMAIN p |->
        IF k \in {"host_ip", "protocol"} THEN ReplaceToken(p[k], d) ELSE p[k]]

\* a service dict: its key ("name") is not a value and is left alone
SubstituteService(s, d) ==
    [k \in DOMAIN s |->
        CASE k = "ports" -> [i \in DOMAIN s[k] |-> SubstitutePort(s[k][i], d)]
          [] k = "profiles" -> SubstituteList(s[k], d)
          [] k = "description" -> ReplaceToken(s[k], d)
          [] OTHER -> s[k]]

SubstituteSection(cfg, sec, d) ==
    CASE sec = "global" -> [k \in DOMAIN cfg[sec] |-> ReplaceToken(cfg[sec][k], d)]
      [] sec = "services" ->
            [i \in DOMAIN cfg[sec] |-> SubstituteService(cfg[sec][i], d)]
      [] sec = "profiles" ->
            [p \in DOMAIN cfg[sec] |->
                [k \in DOMAIN cfg[sec][p] |-> SubstituteList(cfg[sec][p][k], d)]]

_substitute_variables(cfg) ==
    LET default_host_ip ==
            Get(Get(cfg, "global", EmptyDict), "default_host_ip", "127.0.0.1")
    IN  [sec \in DOMAIN cfg |-> SubstituteSection(cfg, sec, default_host_ip)]

\* load_config: json.load of the file, then the substitution pass
load_config(file) == _substitute_variables(file)

\* mutant: the conflict key holds the protocol too
PortKey_WithProtocol(port_config) ==
    port_config.host_ip \o ":" \o ToString(port_config.host_port) \o "/"
    \o Get(port_config, "protocol", "tcp")

\* mutant: the conflict key built from the container port
PortKey_ContainerPort(port_config) ==
    port_config.host_ip \o ":" \o ToString(port_config.container_port)

\* f"{host_ip}:{host_port}"
PortKey(port_config) ==
    port_config.host_ip \o ":" \o ToString(port_config.host_port)

MissingSectionMsg(section) ==
    "Error: Missing required section '" \o section \o "' in configuration"

ConflictMsg(key, owner, service_name) ==
    "Error: Port conflict! " \o key \o " is used by both " \o owner
    \o " and " \o service_name

PassedMsg == "Configuration validation passed"

required_sections == <<"global", "services", "profiles">>

\* the inner loops of validate_config: service i, port j, dict used_ports
RECURSIVE ScanPorts(_, _, _, _)
ScanPorts(services, i, j, used_ports) ==
    IF i > Len(services) THEN [called |-> TRUE, ok |-> TRUE, out |-> PassedMsg]
    ELSE LET service_config == services[i]
             ports == Get(service_config, "ports", <<>>)
         IN  IF ~Get(service_config, "enabled", FALSE) \/ j > Len(ports)
             THEN ScanPorts(services, i + 1, 1, used_ports)
             ELSE LET key == PortKey(ports[j])
                  IN  IF key \in DOMAIN used_ports
                      THEN [called |-> TRUE, ok |-> FALSE,
                            out |-> ConflictMsg(key, used_ports[key],
                                                service_config.name)]
                      ELSE ScanPorts(services, i, j + 1,
                                     (key :> service_config.name) @@ used_ports)

RECURSIVE CheckSections(_, _)
CheckSections(cfg, n) ==
    IF n > Len(required_sections) THEN ScanPorts(cfg.services, 1, 1, EmptyDict)
    ELSE IF required_sections[n] \notin DOMAIN cfg
         THEN [called |-> TRUE, ok |-> FALSE,
               out |-> MissingSectionMsg(required_sections[n])]
         ELSE CheckSections(cfg, n + 1)

\* mutant: the scan does not skip the services that are not enabled
validate_config_NoEnabledCheck(cfg) ==
    IF "services" \in DOMAIN cfg
    THEN CheckSections(
            [cfg EXCEPT !.services =
                [i \in DOMAIN @ |-> ("enabled" :> TRUE) @@ @[i]]], 1)
    ELSE CheckSections(cfg, 1)

validate_config(cfg) == CheckSections(cfg, 1)

\* mutant: a service must be listed by itself and by the profile
Selected_Intersection(cfg, service_config, profile) ==
    IF Truthy(profile) /\ profile # "all"
    THEN /\ InList(profile, Get(service_config, "profiles", <<>>))
         /\ InList(service_config.name,
                   Get(Get(Get(cfg, "profiles", EmptyDict), profile, EmptyDict),
                       "included_services", <<>>))
    ELSE TRUE

\* mutant: "all" is looked up like any profile name
Selected_NoAllSentinel(cfg, service_config, profile) ==
    IF Truthy(profile)
    THEN \/ InList(profile, Get(service_config, "profiles", <<>>))
         \/ InList(service_config.name,
                   Get(Get(Get(cfg, "profiles", EmptyDict), profile, EmptyDict),
                       "included_services", <<>>))
    ELSE TRUE

\* lines 98-105: whether an enabled service goes into the list
Selected(cfg, service_config, profile) ==
    IF Truthy(profile) /\ profile # "all"
    THEN LET service_profiles == Get(service_config, "profiles", <<>>)
             profile_services ==
                 Get(Get(Get(cfg, "profiles", EmptyDict), profile, EmptyDict),
                     "included_services", <<>>)
         IN  InList(profile, service_profiles)
             \/ InList(service_config.name, profile_services)
    ELSE TRUE

\* the loop of get_enabled_services from service i on
RECURSIVE ResolveFrom(_, _, _)
ResolveFrom(cfg, profile, i) ==
    IF i > Len(cfg.services) THEN <<>>
    ELSE LET service_config == cfg.services[i]
             rest == ResolveFrom(cfg, profile, i + 1)
         IN  IF ~Get(service_config, "enabled", FALSE) THEN rest
             ELSE IF Selected(cfg, service_config, profile)
                  THEN <<service_config.name>> \o rest
                  ELSE rest

get_enabled_services(cfg, profile) == ResolveFrom(cfg, profile, 1)

\* self.config['services'].get(service_name, {})
ServiceConfig(cfg, service_name) ==
    IF \E i \in DOMAIN cfg.services : cfg.services[i].name = service_name
    THEN cfg.services[CHOOSE i \in DOMAIN cfg.services :
                         cfg.services[i].name = service_name]
    ELSE EmptyDict

\* mutant: the reverse-proxied service web is exposed as well
PublicIngress_WithWeb == {"caddy", "web"}

\* the services named in `if service_name in ['caddy']`
PublicIngress == {"caddy"}

\* mutant: the public branch does not look at the host address
PortMapping_NoWildcardCheck(service_name, port_config, environment) ==
    LET host_ip == port_config.host_ip
        host_port == ToString(port_config.host_port)
        container_port == ToString(port_config.container_port)
        protocol == Get(port_config, "protocol", "tcp")
    IN  IF environment = "private"
        THEN <<host_ip \o ":" \o host_port \o ":" \o container_port \o "/"
               \o protocol>>
        ELSE IF service_name \in {"caddy"}
             THEN <<host_port \o ":" \o container_port \o "/" \o protocol>>
             ELSE <<>>

\* mutant: a mapping without protocol is emitted as udp
PortMapping_DefaultUdp(service_name, port_config, environment) ==
    LET host_ip == port_config.host_ip
        host_port == ToString(port_config.host_port)
        container_port == ToString(port_config.container_port)
        protocol == Get(port_config, "protocol", "udp")
    IN  IF environment = "private"
        THEN <<host_ip \o ":" \o host_port \o ":" \o container_port \o "/"
               \o protocol>>
        ELSE IF service_name \in {"caddy"}
             THEN IF host_ip = "0.0.0.0"
                  THEN <<host_port \o ":" \o container_port \o "/" \o protocol>>
                  ELSE <<>>
             ELSE <<>>

\* the body of the loop over a service's ports: the list holding the binding
\* string appended for port_config, or the empty list when it is skipped
PortMapping(service_name, port_config, environment) ==
    LET host_ip == port_config.host_ip
        host_port == ToString(port_config.host_port)
        container_port == ToString(port_config.container_port)
        protocol == Get(port_config, "protocol", "tcp")
    IN  IF environment = "private"
        THEN <<host_ip \o ":" \o host_port \o ":" \o container_port \o "/"
               \o protocol>>
        ELSE IF service_name \in PublicIngress
             THEN IF host_ip = "0.0.0.0"
                  THEN <<host_port \o ":" \o container_port \o "/" \o protocol>>
                  ELSE <<>>
             ELSE <<>>

RECURSIVE PortMappings(_, _, _, _)
PortMappings(service_name, ports, environment, j) ==
    IF j > Len(ports) THEN <<>>
    ELSE PortMapping(service_name, ports[j], environment)
         \o PortMappings(service_name, ports, environment, j + 1)

\* override_config['services'] as the ordered list of its items
RECURSIVE OverrideConfig(_, _, _, _)
OverrideConfig(cfg, services, environment, i) ==
    IF i > Len(services) THEN <<>>
    ELSE LET service_name == services[i]
             ports == Get(ServiceConfig(cfg, service_name), "ports", <<>>)
             port_mappings == PortMappings(service_name, ports, environment, 1)
             rest == OverrideConfig(cfg, services, environment, i + 1)
         IN  IF ports = <<>> \/ port_mappings = <<>> THEN rest
             ELSE <<[name |-> service_name, ports |-> port_mappings]>> \o rest

\* "\n".join(lines)
RECURSIVE Join(_)
Join(lines) ==
    IF lines = <<>> THEN ""
    ELSE IF Len(lines) = 1 THEN lines[1]
         ELSE lines[1] \o "\n" \o Join(Tail(lines))

\* _dict_to_yaml({'ports': [...]}, 2)
YamlPorts(port_mappings) ==
    Join(<<"    ports:">>
         \o [j \in DOMAIN port_mappings |-> "      - " \o port_mappings[j]])

\* _dict_to_yaml(override_config['services'], 1)
YamlServices(entries) ==
    Join([i \in DOMAIN entries |->
            Join(<<"  " \o entries[i].name \o ":", YamlPorts(entries[i].ports)>>)])

\* _dict_to_yaml(override_config)
_dict_to_yaml(entries) == Join(<<"services:", YamlServices(entries)>>)

OverrideFilename(environment) ==
    "docker-compose.override." \o environment \o ".generated.yml"

\* generate_override_file: the file it writes, name and content
generate_override_file(cfg, services, environment) ==
    LET override_config == OverrideConfig(cfg, services, environment, 1)
    IN  [file |-> OverrideFilename(environment),
         data |-> override_config,
         text |-> _dict_to_yaml(override_config)]

hostname_map ==
    [n \in {"n8n", "open-webui", "flowise", "langfuse-web", "neo4j", "searxng",
            "portainer"} |->
        CASE n = "n8n" -> "$N8N_HOSTNAME"
          [] n = "open-webui" -> "$WEBUI_HOSTNAME"
          [] n = "flowise" -> "$FLOWISE_HOSTNAME"
          [] n = "langfuse-web" -> "$LANGFUSE_HOSTNAME"
          [] n = "neo4j" -> "$NEO4J_HOSTNAME"
          [] n = "searxng" -> "$SEARXNG_HOSTNAME"
          [] n = "portainer" -> "$PORTAINER_HOSTNAME"]

\* service_name.upper().replace("-", "_") on the names of the model
UpperName(service_name) ==
    CASE service_name = "web" -> "WEB"
      [] service_name = "caddy" -> "CADDY"
      [] service_name = "admin" -> "ADMIN"

_get_hostname_variable(service_name) ==
    IF service_name \in DOMAIN hostname_map THEN hostname_map[service_name]
    ELSE "$" \o UpperName(service_name) \o "_HOSTNAME"

ProxyLine(service_name, container_port) ==
    "    reverse_proxy " \o service_name \o ":" \o ToString(container_port)

\* mutant: the block proxies to the last declared port
CaddyBlock_LastPort(cfg, service_name) ==
    LET service_config ==
            IF \E i \in DOMAIN cfg.services : cfg.services[i].name = service_name
            THEN cfg.services[CHOOSE i \in DOMAIN cfg.services :
                                 cfg.services[i].name = service_name]
            ELSE EmptyDict
        ports == Get(service_config, "ports", <<>>)
    IN  IF ~Get(service_config, "reverse_proxy", FALSE) THEN <<>>
        ELSE IF ports = <<>> THEN <<>>
             ELSE <<"# " \o Get(service_config, "description", service_name),
                    "{$" \o service_name \o "_HOSTNAME} {",
                    "    reverse_proxy " \o service_name \o ":"
                    \o ToString(ports[Len(ports)].container_port),
                    "}",
                    "">>

\* the lines one service appends to caddy_config
CaddyBlock(cfg, service_name) ==
    LET service_config == ServiceConfig(cfg, service_name)
        ports == Get(service_config, "ports", <<>>)
    IN  IF ~Get(service_config, "reverse_proxy", FALSE) THEN <<>>
        ELSE IF ports = <<>> THEN <<>>
             ELSE <<"# " \o Get(service_config, "description", service_name),
                    "{" \o _get_hostname_variable(service_name) \o "} {",
                    ProxyLine(service_name, ports[1].container_port),
                    "}",
                    "">>

RECURSIVE CaddyBlocks(_, _, _)
CaddyBlocks(cfg, services, i) ==
    IF i > Len(services) THEN <<>>
    ELSE CaddyBlock(cfg, services[i]) \o CaddyBlocks(cfg, services, i + 1)

ImportLine == "import /etc/caddy/addons/*.conf"

\* mutant: the import line is appended only after a service block
generate_caddyfile_ImportAfterBlocks(cfg, services) ==
    LET blocks == CaddyBlocks(cfg, services, 1)
        caddy_config ==
            <<"{\n    email {$LETSENCRYPT_EMAIL}\n}", "">>
            \o blocks
            \o (IF blocks = <<>> THEN <<>> ELSE <<ImportLine, "">>)
    IN  [file |-> "Caddyfile.generated",
         data |-> caddy_config,
         text |-> Join(caddy_config)]

\* generate_caddyfile: the file it writes, name and content
generate_caddyfile(cfg, services) ==
    LET caddy_config ==
            <<"{\n    email {$LETSENCRYPT_EMAIL}\n}", "">>
            \o CaddyBlocks(cfg, services, 1)
            \o <<ImportLine, "">>
    IN  [file |-> "Caddyfile.generated",
         data |-> caddy_config,
         text |-> Join(caddy_config)]

-----------------------------------------------------------------------------
(* Calls of the ServiceManager methods: one call on a newly constructed      *)
(* manager, with its arguments and what it returned, printed and wrote      *)

NoOp == [name |-> "", service_name |-> "", out |-> <<>>]

DefaultArgs ==
    [profile |-> "cpu", environment |-> "private", no_supabase |-> FALSE,
     dry_run |-> FALSE, list_services |-> FALSE]

NoResult == [called |-> FALSE, ok |-> FALSE, out |-> ""]

\* the profile arguments of get_enabled_services ("" stands for None and '')
ProfileInputs == {"all", "", "cpu", "gpu-nvidia"}

\* the profiles the generators' resolved lists are drawn from
GenerationProfiles == {"all", "cpu"}

Environments == {"private", "public"}

\* ServiceManager(config_file): __init__ loads the registry
InitApi ==
    /\ \/ \E pa \in PortAssignments, en \in EnabledChoices,
             inc \in IncludedChoices, drop \in Drops :
               storage = Registry(pa, en, inc, drop)
       \/ \E pa \in PortAssignments : storage = TokenRegistry(pa)
    /\ config = storage
    /\ menu = "none"
    /\ last_op = NoOp
    /\ ops = 0
    /\ pc = "__init__"
    /\ args = DefaultArgs
    /\ sm = load_config(storage)
    /\ vres = NoResult
    /\ enabled_services = <<>>
    /\ written = EmptyDict
    /\ driver = <<>>

\* mutant: validation drops from the registry the services it skips
ApiValidate_DropsSkipped ==
    /\ pc \in {"__init__", "validate_config"} /\ ops < MaxCalls
    /\ pc' = "validate_config"
    /\ vres' = validate_config(sm)
    /\ sm' = IF "services" \in DOMAIN sm
             THEN [sm EXCEPT !.services =
                      SelectSeq(@, LAMBDA service_config :
                                      Get(service_config, "enabled", FALSE))]
             ELSE sm
    /\ ops' = ops + 1
    /\ args' = DefaultArgs
    /\ enabled_services' = <<>>
    /\ written' = EmptyDict
    /\ UNCHANGED <<storage, config, menu, last_op, driver>>

\* validate_config(), called once or again on the same manager; ops counts
\* the calls
ApiValidate ==
    /\ pc \in {"__init__", "validate_config"} /\ ops < MaxCalls
    /\ pc' = "validate_config"
    /\ vres' = validate_config(sm)
    /\ ops' = ops + 1
    /\ args' = DefaultArgs
    /\ enabled_services' = <<>>
    /\ written' = EmptyDict
    /\ UNCHANGED <<storage, config, menu, last_op, sm, driver>>

ApiResolve(profile) ==
    /\ pc = "__init__"
    /\ "services" \in DOMAIN sm
    /\ pc' = "get_enabled_services"
    /\ args' = [DefaultArgs EXCEPT !.profile = profile]
    /\ enabled_services' = get_enabled_services(sm, profile)
    /\ vres' = NoResult
    /\ written' = EmptyDict
    /\ UNCHANGED <<storage, config, menu, last_op, ops, sm, driver>>

\* generate_override_file on the list resolved for `profile`
ApiOverride(profile, environment) ==
    /\ pc = "__init__"
    /\ "services" \in DOMAIN sm
    /\ pc' = "generate_override_file"
    /\ args' = [DefaultArgs EXCEPT !.profile = profile,
                                   !.environment = environment]
    /\ enabled_services' = get_enabled_services(sm, profile)
    /\ LET f == generate_override_file(sm, enabled_services', environment)
       IN  written' = (f.file :> [data |-> f.data, text |-> f.text])
    /\ vres' = NoResult
    /\ UNCHANGED <<storage, config, menu, last_op, ops, sm, driver>>

\* generate_caddyfile on the list resolved for `profile`
ApiCaddyfile(profile) ==
    /\ pc = "__init__"
    /\ "services" \in DOMAIN sm
    /\ pc' = "generate_caddyfile"
    /\ args' = [DefaultArgs EXCEPT !.profile = profile]
    /\ enabled_services' = get_enabled_services(sm, profile)
    /\ LET f == generate_caddyfile(sm, enabled_services')
       IN  written' = (f.file :> [data |-> f.data, text |-> f.text])
    /\ vres' = NoResult
    /\ UNCHANGED <<storage, config, menu, last_op, ops, sm, driver>>

\* self.config['services'] on a registry without that section
ApiKeyError ==
    /\ pc = "__init__"
    /\ "services" \notin DOMAIN sm
    /\ pc' = "KeyError"
    /\ args' = DefaultArgs
    /\ enabled_services' = <<>>
    /\ vres' = NoResult
    /\ written' = EmptyDict
    /\ UNCHANGED <<storage, config, menu, last_op, ops, sm, driver>>

NextApi ==
    \/ ApiValidate
    \/ \E profile \in ProfileInputs : ApiResolve(profile)
    \/ \E profile \in GenerationProfiles, environment \in Environments :
            ApiOverride(profile, environment)
    \/ \E profile \in GenerationProfiles : ApiCaddyfile(profile)
    \/ ApiKeyError

SpecApi == InitApi /\ [][NextApi]_vars

-----------------------------------------------------------------------------
(* ServiceConfigurator, src/configure_services.py *)

\* service_name in self.config['services']
InServices(cfg, service_name) ==
    \E i \in DOMAIN cfg.services : cfg.services[i].name = service_name

ServiceIndex(cfg, service_name) ==
    CHOOSE i \in DOMAIN cfg.services : cfg.services[i].name = service_name

\* d[k] = v
SetKey(d, k, v) == (k :> v) @@ d

\* mutant: a name the registry does not hold is added to it, enabled
toggle_service_CreatesMissing(cfg, service_name) ==
    IF InServices(cfg, service_name)
    THEN LET i == ServiceIndex(cfg, service_name)
             current_status == Get(cfg.services[i], "enabled", FALSE)
             new_status == IF ~current_status THEN "enabled" ELSE "disabled"
         IN  [config |-> [cfg EXCEPT !.services[i] =
                                SetKey(@, "enabled", ~current_status)],
              out |-> <<"Service '" \o service_name \o "' " \o new_status>>]
    ELSE [config |-> [cfg EXCEPT !.services =
                         Append(@, [name |-> service_name, enabled |-> TRUE])],
          out |-> <<"Service '" \o service_name \o "' enabled">>]

\* toggle_service: the registry afterwards and the line printed
toggle_service(cfg, service_name) ==
    IF InServices(cfg, service_name)
    THEN LET i == ServiceIndex(cfg, service_name)
             current_status == Get(cfg.services[i], "enabled", FALSE)
             new_status == IF ~current_status THEN "enabled" ELSE "disabled"
         IN  [config |-> [cfg EXCEPT !.services[i] =
                                SetKey(@, "enabled", ~current_status)],
              out |-> <<"Service '" \o service_name \o "' " \o new_status>>]
    ELSE [config |-> cfg,
          out |-> <<"Service '" \o service_name \o "' not found">>]

\* mutant: the ports of services that are not enabled count as in use
check_port_conflict_NoEnabledCheck(cfg, current_service, host_ip, host_port) ==
    \E i \in DOMAIN cfg.services :
        /\ cfg.services[i].name # current_service
        /\ \E j \in DOMAIN Get(cfg.services[i], "ports", <<>>) :
              /\ cfg.services[i].ports[j].host_ip = host_ip
              /\ cfg.services[i].ports[j].host_port = host_port

\* check_port_conflict: the early return True of the two loops
check_port_conflict(cfg, current_service, host_ip, host_port) ==
    \E i \in DOMAIN cfg.services :
        /\ ~(cfg.services[i].name = current_service
             \/ ~Get(cfg.services[i], "enabled", FALSE))
        /\ \E j \in DOMAIN Get(cfg.services[i], "ports", <<>>) :
              /\ cfg.services[i].ports[j].host_ip = host_ip
              /\ cfg.services[i].ports[j].host_port = host_port

\* int(s) on the inputs of the model; the other inputs raise ValueError
IntOf == ("0" :> 0) @@ ("1" :> 1) @@ ("2" :> 2) @@ ("3" :> 3) @@ ("9" :> 9)
         @@ ("443" :> 443) @@ ("8000" :> 8000) @@ ("70000" :> 70000)

IsInt(s) == s \in DOMAIN IntOf

UpdatedMsg == "Port configuration updated successfully!"

\* edit_single_port, port_index counted from 1: the registry afterwards and
\* the lines printed after the two prompts
edit_single_port(cfg, service_name, port_index, new_ip, new_port_str) ==
    LET i == ServiceIndex(cfg, service_name)
        port_config == cfg.services[i].ports[port_index]
        current_ip == Get(port_config, "host_ip", "127.0.0.1")
        ip_edit == new_ip # "" /\ new_ip # current_ip
        cfg1 == IF ip_edit
                THEN [cfg EXCEPT !.services[i].ports[port_index] =
                                    SetKey(@, "host_ip", new_ip)]
                ELSE cfg
        out1 == IF ip_edit THEN <<"Host IP updated to: " \o new_ip>> ELSE <<>>
        port_config1 == cfg1.services[i].ports[port_index]
        current_port == Get(port_config1, "host_port", 0)
    IN  IF new_port_str = ""
        THEN [config |-> cfg1, out |-> out1 \o <<UpdatedMsg>>]
        ELSE IF ~IsInt(new_port_str)
        THEN [config |-> cfg1,
              out |-> out1 \o <<"Invalid port number.", UpdatedMsg>>]
        ELSE LET new_port == IntOf[new_port_str]
             IN  IF 1 <= new_port /\ new_port <= 65535
                 THEN IF new_port # current_port
                      THEN IF check_port_conflict(cfg1, service_name,
                                                  port_config1.host_ip, new_port)
                           THEN [config |-> cfg1,
                                 out |-> out1 \o
                                    <<"Port conflict detected! Port "
                                      \o new_port_str \o " is already in use.">>]
                           ELSE [config |->
                                    [cfg1 EXCEPT
                                        !.services[i].ports[port_index] =
                                            SetKey(@, "host_port", new_port)],
                                 out |-> out1 \o
                                    <<"Host port updated to: " \o new_port_str,
                                      UpdatedMsg>>]
                      ELSE [config |-> cfg1, out |-> out1 \o <<UpdatedMsg>>]
                 ELSE [config |-> cfg1,
                       out |-> out1 \o
                          <<"Invalid port number. Must be between 1-65535.",
                            UpdatedMsg>>]

\* edit_service_ports: the registry afterwards and the lines printed after
\* the prompt for the port to edit
edit_service_ports(cfg, service_name, choice, new_ip, new_port_str) ==
    IF ~InServices(cfg, service_name)
    THEN [config |-> cfg,
          out |-> <<"Service '" \o service_name \o "' not found">>]
    ELSE LET ports == Get(cfg.services[ServiceIndex(cfg, service_name)],
                          "ports", <<>>)
         IN  IF ports = <<>>
             THEN [config |-> cfg,
                   out |-> <<"Service '" \o service_name
                             \o "' has no configurable ports">>]
             ELSE IF ~IsInt(choice)
             THEN [config |-> cfg,
                   out |-> <<"Invalid input. Please enter a number.">>]
             ELSE LET choice_num == IntOf[choice]
                  IN  IF choice_num = 0 THEN [config |-> cfg, out |-> <<>>]
                      ELSE IF 1 <= choice_num /\ choice_num <= Len(ports)
                      THEN edit_single_port(cfg, service_name, choice_num,
                                            new_ip, new_port_str)
                      ELSE [config |-> cfg,
                            out |-> <<"Invalid choice. Please enter a number between 0 and "
                                      \o ToString(Len(ports)) \o ".">>]

\* an uncaught KeyError of an operation reaches the except of main_menu
KeyErrorMsg == "An error occurred: 'services'"

-----------------------------------------------------------------------------
(* The interactive session: the operations main_menu dispatches to *)

Op(name, service_name, printed) ==
    [name |-> name, service_name |-> service_name, out |-> printed]

\* the service names entered: the registry's, and one it does not hold
NameInputs == {Names[i] : i \in DOMAIN Names} \cup {"ghost"}

ChoiceInputs == {"0", "1", "2", "3", "9", "x"}

IpInputs == {"", "0.0.0.0"}

PortInputs == {"", "443", "abc", "70000"}

\* mutant: a toggle writes the registry to storage
Toggle_AutoSaves(service_name) ==
    /\ menu = "menu" /\ ops < MaxOps
    /\ LET r == IF "services" \in DOMAIN config
                THEN toggle_service(config, service_name)
                ELSE [config |-> config, out |-> <<KeyErrorMsg>>]
       IN  /\ config' = r.config
           /\ storage' = r.config
           /\ last_op' = Op("toggle_service", service_name, r.out)
    /\ ops' = ops + 1
    /\ UNCHANGED <<menu, pc, args, sm, vres, enabled_services, written, driver>>

Toggle(service_name) ==
    /\ menu = "menu" /\ ops < MaxOps
    /\ LET r == IF "services" \in DOMAIN config
                THEN toggle_service(config, service_name)
                ELSE [config |-> config, out |-> <<KeyErrorMsg>>]
       IN  /\ config' = r.config
           /\ last_op' = Op("toggle_service", service_name, r.out)
    /\ ops' = ops + 1
    /\ UNCHANGED <<storage, menu, pc, args, sm, vres, enabled_services,
                   written, driver>>

EditPorts(service_name, choice, new_ip, new_port_str) ==
    /\ menu = "menu" /\ ops < MaxOps
    /\ LET r == IF "services" \in DOMAIN config
                THEN edit_service_ports(config, service_name, choice, new_ip,
                                        new_port_str)
                ELSE [config |-> config, out |-> <<KeyErrorMsg>>]
       IN  /\ config' = r.config
           /\ last_op' = Op("edit_service_ports", service_name, r.out)
    /\ ops' = ops + 1
    /\ UNCHANGED <<storage, menu, pc, args, sm, vres, enabled_services,
                   written, driver>>

SavedMsg == "Configuration saved to services.json"

\* save_config: json.dump of the whole registry
Save ==
    /\ menu = "menu" /\ ops < MaxOps
    /\ storage' = config
    /\ last_op' = Op("save_config", "", <<SavedMsg>>)
    /\ ops' = ops + 1
    /\ UNCHANGED <<config, menu, pc, args, sm, vres, enabled_services,
                   written, driver>>

\* list(self.config.get('profiles', {}).keys())
RECURSIVE KeyList(_)
KeyList(keys) ==
    IF keys = {} THEN <<>>
    ELSE LET k == CHOOSE k \in keys : TRUE IN <<k>> \o KeyList(keys \ {k})

ProfileChoiceInputs == {"", "1", "9", "x"}

\* start_services: save, choose the profile, run main() as a subprocess
StartServices(profile_choice, dry_run) ==
    /\ menu = "menu" /\ ops < MaxOps /\ pc = "idle"
    /\ storage' = config
    /\ ops' = ops + 1
    /\ LET profiles == KeyList(DOMAIN Get(config, "profiles", EmptyDict))
           profile ==
               IF profile_choice = "" THEN "cpu"
               ELSE IF 1 <= IntOf[profile_choice]
                       /\ IntOf[profile_choice] <= Len(profiles)
                    THEN profiles[IntOf[profile_choice]]
                    ELSE "cpu"
       IN  IF profile_choice # "" /\ ~IsInt(profile_choice)
           THEN /\ last_op' = Op("start_services", "",
                                 <<SavedMsg, "Invalid input.">>)
                /\ UNCHANGED <<menu, pc, args>>
           ELSE /\ last_op' = Op("start_services", "", <<SavedMsg>>)
                /\ menu' = "subprocess"
                /\ pc' = "init"
                /\ args' = [DefaultArgs EXCEPT
                                !.profile = profile,
                                !.dry_run = dry_run \in {"y", "yes"}]
    /\ UNCHANGED <<config, sm, vres, enabled_services, written, driver>>

\* choice '0' of main_menu
Exit ==
    /\ menu = "menu"
    /\ menu' = "exited"
    /\ UNCHANGED <<storage, config, last_op, ops, pc, args, sm, vres,
                   enabled_services, written, driver>>

-----------------------------------------------------------------------------
(* main() of start_services_enhanced.py *)

\* the values of --profile the model draws from argparse's choices
CliProfiles == {"cpu", "gpu-nvidia", "none"}

CliArgs ==
    [profile : CliProfiles, environment : Environments, no_supabase : BOOLEAN,
     dry_run : BOOLEAN, list_services : BOOLEAN]

\* main() started from the command line, no interactive session running
MainCli(a) ==
    /\ menu = "none" /\ pc = "idle"
    /\ pc' = "init"
    /\ args' = a
    /\ UNCHANGED <<storage, config, menu, last_op, ops, sm, vres,
                   enabled_services, written, driver>>

\* service_manager = ServiceManager(args.config)
MainInit ==
    /\ pc = "init"
    /\ sm' = load_config(storage)
    /\ pc' = "constructed"
    /\ UNCHANGED <<storage, config, menu, last_op, ops, args, vres,
                   enabled_services, written, driver>>

\* if args.list_services: print the services and return
MainListServices ==
    /\ pc = "constructed" /\ args.list_services
    /\ pc' = IF "services" \in DOMAIN sm THEN "done" ELSE "crashed"
    /\ UNCHANGED <<storage, config, menu, last_op, ops, args, sm, vres,
                   enabled_services, written, driver>>

\* mutant: main() goes on after a failed validation
MainValidate_NoExit ==
    /\ pc = "constructed" /\ ~args.list_services
    /\ vres' = validate_config(sm)
    /\ pc' = IF "services" \in DOMAIN sm THEN "validated" ELSE "exit1"
    /\ UNCHANGED <<storage, config, menu, last_op, ops, args, sm,
                   enabled_services, written, driver>>

\* if not service_manager.validate_config(): sys.exit(1)
MainValidate ==
    /\ pc = "constructed" /\ ~args.list_services
    /\ vres' = validate_config(sm)
    /\ pc' = IF vres'.ok THEN "validated" ELSE "exit1"
    /\ UNCHANGED <<storage, config, menu, last_op, ops, args, sm,
                   enabled_services, written, driver>>

\* mutant: main() goes on with an empty list
MainResolve_NoExit ==
    /\ pc = "validated"
    /\ enabled_services' = get_enabled_services(sm, args.profile)
    /\ pc' = "resolved"
    /\ UNCHANGED <<storage, config, menu, last_op, ops, args, sm, vres,
                   written, driver>>

\* enabled_services = get_enabled_services(args.profile); exit 1 when empty
MainResolve ==
    /\ pc = "validated"
    /\ enabled_services' = get_enabled_services(sm, args.profile)
    /\ pc' = IF enabled_services' = <<>> THEN "exit1" ELSE "resolved"
    /\ UNCHANGED <<storage, config, menu, last_op, ops, args, sm, vres,
                   written, driver>>

\* mutant: main() generates and starts in a dry run too
MainSummary_NoDryRunReturn ==
    /\ pc = "resolved"
    /\ pc' = "generate"
    /\ UNCHANGED <<storage, config, menu, last_op, ops, args, sm, vres,
                   enabled_services, written, driver>>

\* print_service_summary, then the dry-run return
MainSummary ==
    /\ pc = "resolved"
    /\ pc' = IF args.dry_run THEN "done" ELSE "generate"
    /\ UNCHANGED <<storage, config, menu, last_op, ops, args, sm, vres,
                   enabled_services, written, driver>>

MainOverride ==
    /\ pc = "generate"
    /\ LET f == generate_override_file(sm, enabled_services, args.environment)
       IN  written' = SetKey(written, f.file, [data |-> f.data, text |-> f.text])
    /\ pc' = "override_written"
    /\ UNCHANGED <<storage, config, menu, last_op, ops, args, sm, vres,
                   enabled_services, driver>>

MainCaddyfile ==
    /\ pc = "override_written"
    /\ LET f == generate_caddyfile(sm, enabled_services)
       IN  written' = SetKey(written, f.file, [data |-> f.data, text |-> f.text])
    /\ pc' = "caddyfile_written"
    /\ UNCHANGED <<storage, config, menu, last_op, ops, args, sm, vres,
                   enabled_services, driver>>

\* not args.no_supabase and any(... .get('supabase') for s in enabled_services)
NeedsSupabase ==
    /\ ~args.no_supabase
    /\ \E i \in DOMAIN enabled_services :
          Get(ServiceConfig(sm, enabled_services[i]), "supabase", FALSE)

\* clone_supabase_repo() and prepare_supabase_env() if needed
MainSupabaseSetup ==
    /\ pc = "caddyfile_written"
    /\ driver' = IF NeedsSupabase
                 THEN driver \o <<"clone_supabase_repo", "prepare_supabase_env">>
                 ELSE driver
    /\ pc' = "supabase_ready"
    /\ UNCHANGED <<storage, config, menu, last_op, ops, args, sm, vres,
                   enabled_services, written>>

\* generate_searxng_secret_key() if 'searxng' in enabled_services
MainSearxng ==
    /\ pc = "supabase_ready"
    /\ driver' = IF InList("searxng", enabled_services)
                 THEN Append(driver, "generate_searxng_secret_key")
                 ELSE driver
    /\ pc' = "secret_ready"
    /\ UNCHANGED <<storage, config, menu, last_op, ops, args, sm, vres,
                   enabled_services, written>>

MainStop ==
    /\ pc = "secret_ready"
    /\ driver' = Append(driver, "stop_existing_containers")
    /\ pc' = "stopped"
    /\ UNCHANGED <<storage, config, menu, last_op, ops, args, sm, vres,
                   enabled_services, written>>

MainStartSupabase ==
    /\ pc = "stopped"
    /\ driver' = IF NeedsSupabase THEN Append(driver, "start_supabase")
                 ELSE driver
    /\ pc' = "supabase_started"
    /\ UNCHANGED <<storage, config, menu, last_op, ops, args, sm, vres,
                   enabled_services, written>>

MainStartLocalAi ==
    /\ pc = "supabase_started"
    /\ driver' = Append(driver, "start_local_ai")
    /\ pc' = "done"
    /\ UNCHANGED <<storage, config, menu, last_op, ops, args, sm, vres,
                   enabled_services, written>>

\* run_command: subprocess.run(..., check=True) raises on a failing command
MainCommandFails ==
    /\ \/ pc = "caddyfile_written" /\ NeedsSupabase
       \/ pc = "secret_ready"
       \/ pc = "stopped" /\ NeedsSupabase
       \/ pc = "supabase_started"
    /\ pc' = "crashed"
    /\ UNCHANGED <<storage, config, menu, last_op, ops, args, sm, vres,
                   enabled_services, written, driver>>

\* the process ends; subprocess.run in start_services returns to the menu
MainExit ==
    /\ pc \in {"done", "exit1", "crashed"}
    /\ pc' = "idle"
    /\ menu' = IF menu = "subprocess" THEN "menu" ELSE menu
    /\ args' = DefaultArgs
    /\ sm' = EmptyDict
    /\ vres' = NoResult
    /\ enabled_services' = <<>>
    /\ written' = EmptyDict
    /\ driver' = <<>>
    /\ UNCHANGED <<storage, config, last_op, ops>>

-----------------------------------------------------------------------------
(* The program: an interactive session, or main() from the command line *)

AllEnabled == [i \in 1..3 |-> TRUE]

SeedAssignments ==
    {<<<<P443>>, <<P8000>>, <<>>>>,
     <<<<P443>>, <<>>, <<P8000>>>>,
     <<<<P8000>>, <<P443>>, <<>>>>,
     <<<<P443>>, <<P8000>>, <<PTok>>>>,
     <<<<P8000, P443>>, <<>>, <<P8000>>>>,
     <<<<>>, <<P443, PTok>>, <<P443>>>>}

Seeds ==
    {Registry(pa, AllEnabled, <<"caddy">>, "") : pa \in SeedAssignments}
    \cup {Registry(<<<<P8000>>, <<P443>>, <<P8000>>>>, AllEnabled, <<>>, drop) :
            drop \in Drops}

Init ==
    /\ storage \in Seeds
    /\ config = storage
    /\ menu \in {"menu", "none"}
    /\ last_op = NoOp
    /\ ops = 0
    /\ pc = "idle"
    /\ args = DefaultArgs
    /\ sm = EmptyDict
    /\ vres = NoResult
    /\ enabled_services = <<>>
    /\ written = EmptyDict
    /\ driver = <<>>

Next ==
    \/ \E service_name \in NameInputs : Toggle(service_name)
    \/ \E service_name \in NameInputs, choice \in ChoiceInputs,
          new_ip \in IpInputs, new_port_str \in PortInputs :
            EditPorts(service_name, choice, new_ip, new_port_str)
    \/ Save
    \/ \E profile_choice \in ProfileChoiceInputs, dry_run \in {"y", "n"} :
            StartServices(profile_choice, dry_run)
    \/ Exit
    \/ \E a \in CliArgs : MainCli(a)
    \/ MainInit
    \/ MainListServices
    \/ MainValidate
    \/ MainResolve
    \/ MainSummary
    \/ MainOverride
    \/ MainCaddyfile
    \/ MainSupabaseSetup
    \/ MainSearxng
    \/ MainStop
    \/ MainStartSupabase
    \/ MainStartLocalAi
    \/ MainCommandFails
    \/ MainExit

Spec == Init /\ [][Next]_vars

-----------------------------------------------------------------------------
(* Vocabulary of the properties *)

\* what host addresses, ports and protocols occur in a loaded registry
HostIps == {"0.0.0.0", "127.0.0.1"}
HostPorts == {443, 8000}
ContainerPorts == {8443, 80, 81}
Protocols == {"tcp", "udp"}

AllSections(cfg) == Sections \subseteq DOMAIN cfg

IsEnabled(service_config) == Get(service_config, "enabled", FALSE)

PortsOf(service_config) == Get(service_config, "ports", <<>>)

\* the overlay written by the last generate_override_file
Overlay == written[OverrideFilename(args.environment)].data

\* the positions <<entry, binding>> of the overlay
OverlayPositions ==
    UNION {{<<i, j>> : j \in DOMAIN Overlay[i].ports} : i \in DOMAIN Overlay}

\* the binding strings of an overlay, each with the <<hostAddress, hostPort>>
\* it binds; a binding without address prefix binds all interfaces
BindingTexts ==
    {<<ip \o ":" \o ToString(port) \o ":" \o ToString(cp) \o "/" \o proto,
       <<ip, port>>>> :
        <<ip, port, cp, proto>> \in HostIps \X HostPorts \X ContainerPorts
                                    \X Protocols}
    \cup {<<ToString(port) \o ":" \o ToString(cp) \o "/" \o proto,
            <<"0.0.0.0", port>>>> :
            <<port, cp, proto>> \in HostPorts \X ContainerPorts \X Protocols}

\* the <<hostAddress, hostPort>> a binding string of the overlay binds: read
\* back from the text
HostPairs(text) == {b[2] : b \in {t \in BindingTexts : t[1] = text}}

-----------------------------------------------------------------------------
(* C1: for every registry on which validate_config returns True, every     *)
(* profile and both environments, the port overlay that                    *)
(* generate_override_file writes for get_enabled_services(profile) holds   *)
(* no two bindings, over all its services, with the same                   *)
(* (hostAddress, hostPort).                                                *)
C1_OverlayConflictFree ==
    (pc = "generate_override_file" /\ validate_config(sm).ok)
    => \A p \in OverlayPositions, q \in OverlayPositions :
          p # q => HostPairs(Overlay[p[1]].ports[p[2]])
                   \cap HostPairs(Overlay[q[1]].ports[q[2]]) = {}

\* a validated registry whose overlay binds ports of two services, while a
\* disabled service declares one of the same bindings
C1_Witness ==
    /\ pc = "generate_override_file"
    /\ validate_config(sm).ok
    /\ Len(Overlay) >= 2
    /\ \E i \in DOMAIN sm.services, e \in DOMAIN Overlay :
          /\ ~IsEnabled(sm.services[i])
          /\ \E j \in DOMAIN PortsOf(sm.services[i]) :
                <<PortsOf(sm.services[i])[j].host_ip,
                  PortsOf(sm.services[i])[j].host_port>>
                \in HostPairs(Overlay[e].ports[1])

-----------------------------------------------------------------------------
(* Vocabulary of the validation properties *)

\* the positions <<service, port>> of the port mappings of enabled services
EnabledPositions(cfg) ==
    UNION {{<<i, j>> : j \in DOMAIN PortsOf(cfg.services[i])} :
            i \in {k \in DOMAIN cfg.services : IsEnabled(cfg.services[k])}}

\* the order in which validate_config visits the positions
Before(p, q) == p[1] < q[1] \/ (p[1] = q[1] /\ p[2] < q[2])

\* the (hostAddress, hostPort) declared at a position
PairAt(cfg, p) ==
    <<cfg.services[p[1]].ports[p[2]].host_ip,
      cfg.services[p[1]].ports[p[2]].host_port>>

\* hostAddress:hostPort as the diagnostic shows it
PairText(pair) == pair[1] \o ":" \o ToString(pair[2])

NameAt(cfg, p) == cfg.services[p[1]].name

\* the registry without the services that are not enabled
StripDisabled(cfg) ==
    [cfg EXCEPT !.services = SelectSeq(@, IsEnabled)]

\* the port-conflict diagnostics that name a service, as owner or as claimant
DiagnosticsNaming ==
    [n \in NameInputs |->
        {ConflictMsg(PairText(pair), n, m) : pair \in HostIps \X HostPorts,
                                             m \in NameInputs}
        \cup {ConflictMsg(PairText(pair), m, n) : pair \in HostIps \X HostPorts,
                                                  m \in NameInputs}]

\* no diagnostic names a service that is not enabled / no such service
\* changes the outcome
DisabledIgnored(cfg, res) ==
    /\ res = validate_config(StripDisabled(cfg))
    /\ \A i \in DOMAIN cfg.services :
          ~IsEnabled(cfg.services[i]) =>
             res.out \notin DiagnosticsNaming[cfg.services[i].name]

\* the positions that declare a binding already declared at an earlier one
Repeats(cfg) ==
    {q \in EnabledPositions(cfg) :
        \E p \in EnabledPositions(cfg) :
            Before(p, q) /\ PairAt(cfg, p) = PairAt(cfg, q)}

\* the first position of a non-empty set in scan order
FirstOf(positions) ==
    CHOOSE q \in positions : \A r \in positions : r = q \/ Before(q, r)

-----------------------------------------------------------------------------
(* C2, as stated: validate_config fails with a port conflict whenever two  *)
(* distinct enabled services declare a mapping with the same               *)
(* (hostAddress, hostPort), the diagnostic naming the first owning service *)
(* (earlier in registry order), the second claiming service and the exact  *)
(* hostAddress:hostPort; mappings of disabled services never cause a       *)
(* failure and are never named.                                            *)
C2_AsStated ==
    (pc = "validate_config" /\ "services" \in DOMAIN sm)
    => /\ (\E p \in EnabledPositions(sm), q \in EnabledPositions(sm) :
              p[1] < q[1] /\ PairAt(sm, p) = PairAt(sm, q))
          => /\ ~vres.ok
             /\ \E p \in EnabledPositions(sm), q \in EnabledPositions(sm) :
                   /\ p[1] < q[1] /\ PairAt(sm, p) = PairAt(sm, q)
                   /\ vres.out = ConflictMsg(PairText(PairAt(sm, q)),
                                             NameAt(sm, p), NameAt(sm, q))
       /\ DisabledIgnored(sm, vres)

(* C2, amended: with the three required sections present, validate_config  *)
(* fails with a port conflict exactly when two port mappings of enabled    *)
(* services, of two services or of one, share the same                     *)
(* (hostAddress, hostPort); the diagnostic names the binding of the first  *)
(* mapping, in registry then declaration order, that repeats an earlier    *)
(* one, the service that declared that binding first and the service of    *)
(* the repeating mapping (the same service twice when it repeats its own   *)
(* binding); mappings of disabled services never cause a failure and are   *)
(* never named.                                                            *)
C2_FirstRepeatReported ==
    (pc = "validate_config" /\ AllSections(sm))
    => /\ vres.ok <=> Repeats(sm) = {}
       /\ Repeats(sm) # {}
          => LET q == FirstOf(Repeats(sm))
                 p == FirstOf({r \in EnabledPositions(sm) :
                                 PairAt(sm, r) = PairAt(sm, q)})
             IN  vres.out = ConflictMsg(PairText(PairAt(sm, q)),
                                        NameAt(sm, p), NameAt(sm, q))
       /\ DisabledIgnored(sm, vres)

\* two enabled services collide on a binding that a disabled service,
\* earlier in the registry, declares too
C2_Witness ==
    /\ pc = "validate_config" /\ AllSections(sm)
    /\ ~vres.ok
    /\ \E d \in DOMAIN sm.services, p \in EnabledPositions(sm),
          q \in EnabledPositions(sm) :
          /\ ~IsEnabled(sm.services[d]) /\ d < p[1] /\ p[1] < q[1]
          /\ PairAt(sm, p) = PairAt(sm, q)
          /\ \E j \in DOMAIN PortsOf(sm.services[d]) :
                PairAt(sm, <<d, j>>) = PairAt(sm, p)
          /\ vres.out = ConflictMsg(PairText(PairAt(sm, q)), NameAt(sm, p),
                                    NameAt(sm, q))

-----------------------------------------------------------------------------
(* C3: in every run of main(), if validation fails, for a missing section  *)
(* or for a port conflict, neither the port overlay nor the routing        *)
(* document is written and no step of the orchestration driver is invoked; *)
(* artifacts are written only in runs in which validate_config returned    *)
(* True on the registry loaded for that run.                               *)
C3_ValidationGatesArtifacts ==
    /\ (vres.called /\ ~vres.ok) => (written = EmptyDict /\ driver = <<>>)
    /\ (written # EmptyDict \/ driver # <<>>)
       => /\ vres.called /\ vres.ok
          /\ sm = load_config(storage)
          /\ vres = validate_config(sm)

\* a run that ended on a port conflict between enabled services
C3_Witness ==
    /\ pc = "exit1"
    /\ vres.called /\ ~vres.ok
    /\ AllSections(sm)
    /\ Repeats(sm) # {}
    /\ written = EmptyDict /\ driver = <<>>

-----------------------------------------------------------------------------
(* Vocabulary of the session properties *)

\* the registry without its i-th service
DropService(cfg, i) ==
    [cfg EXCEPT !.services =
        SubSeq(@, 1, i - 1) \o SubSeq(@, i + 1, Len(@))]

\* host addresses as the session holds them, before substitution
SessionIps == HostIps \cup {TOKEN}

ConflictLine(port_str) ==
    "Port conflict detected! Port " \o port_str \o " is already in use."

-----------------------------------------------------------------------------
(* C6: after a service is disabled by toggle_service, and until it is      *)
(* toggled again, it appears in the output of no profile resolution and    *)
(* its port mappings are ignored by conflict checking, in validate_config  *)
(* and in the interactive check_port_conflict alike: a binding identical   *)
(* to one of its ports on another enabled service is no conflict.  Every   *)
(* session starts with all services enabled, so the services found         *)
(* disabled are those toggle_service disabled and has not toggled back.    *)
C6_DisabledServiceIgnored ==
    (menu \in {"menu", "subprocess"} /\ "services" \in DOMAIN config)
    => \A i \in DOMAIN config.services :
          ~IsEnabled(config.services[i])
          => LET d == config.services[i].name
                 without == DropService(config, i)
             IN  /\ \A p \in ProfileInputs \cup CliProfiles :
                       ~InList(d, get_enabled_services(load_config(config), p))
                 /\ validate_config(load_config(config))
                    = validate_config(load_config(without))
                 /\ \A c \in NameInputs, ip \in SessionIps, port \in HostPorts :
                       check_port_conflict(config, c, ip, port)
                       = check_port_conflict(without, c, ip, port)
                 \* the run started by start_services
                 /\ menu = "subprocess"
                    => /\ ~InList(d, enabled_services)
                       /\ vres.called
                          => vres = validate_config(load_config(without))
                 \* an edit refused for a conflict
                 /\ (/\ last_op.name = "edit_service_ports"
                     /\ InList(ConflictLine("443"), last_op.out))
                    => \E k \in DOMAIN config.services, ip \in SessionIps :
                          /\ k # i
                          /\ IsEnabled(config.services[k])
                          /\ config.services[k].name # last_op.service_name
                          /\ \E j \in DOMAIN PortsOf(config.services[k]) :
                                PairAt(config, <<k, j>>) = <<ip, 443>>

\* a run started after a toggle disabled a service: validation passes and
\* the list is resolved although an enabled service binds what it binds
C6_Witness ==
    /\ menu = "subprocess"
    /\ vres.called /\ vres.ok
    /\ enabled_services # <<>>
    /\ \E i \in DOMAIN config.services, q \in EnabledPositions(sm) :
          /\ ~IsEnabled(config.services[i])
          /\ \E j \in DOMAIN PortsOf(sm.services[i]) :
                PairAt(sm, <<i, j>>) = PairAt(sm, q)

-----------------------------------------------------------------------------
(* Vocabulary of the resolution and generation properties *)

\* the profile names service or lists the service
ProfileMember(cfg, service_config, profile) ==
    \/ InList(profile, Get(service_config, "profiles", <<>>))
    \/ /\ "profiles" \in DOMAIN cfg
       /\ profile \in DOMAIN cfg.profiles
       /\ InList(service_config.name,
                 Get(cfg.profiles[profile], "included_services", <<>>))

NoDuplicates(list) ==
    \A k \in DOMAIN list, l \in DOMAIN list : k # l => list[k] # list[l]

Resolved(service_name) == InList(service_name, enabled_services)

\* the names of the overlay's entries, in order
OverlayNames == [e \in DOMAIN Overlay |-> Overlay[e].name]

IsWildcard(port_config) == port_config.host_ip = "0.0.0.0"

ProtocolOf(port_config) ==
    IF "protocol" \in DOMAIN port_config THEN port_config.protocol ELSE "tcp"

\* hostPort:containerPort/protocol
PublicText(port_config) ==
    ToString(port_config.host_port) \o ":"
    \o ToString(port_config.container_port) \o "/" \o ProtocolOf(port_config)

\* hostAddress:hostPort:containerPort/protocol
PrivateText(port_config) == port_config.host_ip \o ":" \o PublicText(port_config)

HasPorts(service_name) == PortsOf(ServiceConfig(sm, service_name)) # <<>>

-----------------------------------------------------------------------------
(* C4: for a named profile p, not the sentinel "all",                      *)
(* get_enabled_services(p) returns exactly the services that are enabled   *)
(* and list p in their own profiles or are named in                        *)
(* profiles[p].included_services, each once: either signal alone is        *)
(* enough.                                                                 *)
C4_ProfileUnion ==
    (pc = "get_enabled_services" /\ Truthy(args.profile)
     /\ args.profile # "all")
    => /\ \A i \in DOMAIN sm.services :
             Resolved(sm.services[i].name)
             <=> (IsEnabled(sm.services[i])
                  /\ ProfileMember(sm, sm.services[i], args.profile))
       /\ \A k \in DOMAIN enabled_services :
             \E i \in DOMAIN sm.services :
                sm.services[i].name = enabled_services[k]
       /\ NoDuplicates(enabled_services)

\* resolving "cpu": web is in for listing cpu itself, caddy for being named
\* by the profile, and the enabled admin, neither, is out
C4_Witness ==
    /\ pc = "get_enabled_services" /\ args.profile = "cpu"
    /\ AllSections(sm)
    /\ sm.profiles["cpu"].included_services = <<"caddy">>
    /\ \A i \in DOMAIN sm.services : IsEnabled(sm.services[i])
    /\ enabled_services = <<"web", "caddy">>

-----------------------------------------------------------------------------
(* C5: resolving the sentinel "all" returns exactly the names of the       *)
(* enabled services, each once, in registry order, whatever the profiles   *)
(* lists and included_services say; disabled services never appear.        *)
C5_AllSentinel ==
    (pc = "get_enabled_services" /\ args.profile = "all")
    => LET enabled == SelectSeq(sm.services, IsEnabled)
       IN  enabled_services = [k \in DOMAIN enabled |-> enabled[k].name]

\* two enabled services, one of them in no profile, and a disabled one
C5_Witness ==
    /\ pc = "get_enabled_services" /\ args.profile = "all"
    /\ AllSections(sm)
    /\ sm.profiles["cpu"].included_services = <<>>
    /\ enabled_services = <<"caddy", "admin">>
    /\ ~IsEnabled(sm.services[1])

-----------------------------------------------------------------------------
(* C7: the registry of the example: web enabled, reverse-proxied,          *)
(* declaring 0.0.0.0:443 -> 8443, and admin enabled with non-wildcard      *)
(* host addresses, both resolved, overlay generated for public.            *)
C7_Example ==
    /\ pc = "generate_override_file" /\ args.environment = "public"
    /\ Resolved("web") /\ Resolved("admin")
    /\ Get(ServiceConfig(sm, "web"), "reverse_proxy", FALSE)
    /\ PortsOf(ServiceConfig(sm, "web")) = <<P443>>
    /\ HasPorts("admin")
    /\ \A j \in DOMAIN PortsOf(ServiceConfig(sm, "admin")) :
          ~IsWildcard(PortsOf(ServiceConfig(sm, "admin"))[j])

(* C7, as stated: the overlay holds the entry 443:8443/tcp for web, with   *)
(* no host-address prefix, and no entry for admin.                         *)
C7_AsStated ==
    C7_Example
    => /\ \E e \in DOMAIN Overlay :
             Overlay[e].name = "web" /\ Overlay[e].ports = <<"443:8443/tcp">>
       /\ ~InList("admin", OverlayNames)

(* C7, amended: the overlay holds no entry for web and none for admin;     *)
(* the public ingress point is the service named caddy, and it is caddy    *)
(* declaring 0.0.0.0:443 -> 8443 that gets the entry 443:8443/tcp, with    *)
(* no host-address prefix.                                                 *)
C7_OnlyCaddyExposed ==
    C7_Example
    => /\ ~InList("web", OverlayNames)
       /\ ~InList("admin", OverlayNames)
       /\ (Resolved("caddy") /\ PortsOf(ServiceConfig(sm, "caddy")) = <<P443>>)
          => \E e \in DOMAIN Overlay :
                /\ Overlay[e].name = "caddy"
                /\ Overlay[e].ports = <<"443:8443/tcp">>

\* the example with caddy resolved too, declaring the same port as web
C7_Witness ==
    /\ C7_Example
    /\ Resolved("caddy")
    /\ PortsOf(ServiceConfig(sm, "caddy")) = <<P443>>
    /\ Overlay = <<[name |-> "caddy", ports |-> <<"443:8443/tcp">>]>>

-----------------------------------------------------------------------------
(* C8: in environment public the overlay holds a binding only if its       *)
(* service is the public ingress point (caddy) and its hostAddress is the  *)
(* wildcard 0.0.0.0, rendered hostPort:containerPort/protocol without      *)
(* host-address prefix; every other service and every non-wildcard binding *)
(* is absent, and a service left with no binding has no key.               *)
C8_PublicOverlay ==
    (pc = "generate_override_file" /\ args.environment = "public")
    => /\ NoDuplicates(OverlayNames)
       /\ \A e \in DOMAIN Overlay :
             /\ Overlay[e].name = "caddy"
             /\ Resolved(Overlay[e].name)
             /\ Overlay[e].ports # <<>>
             /\ LET wild == SelectSeq(PortsOf(ServiceConfig(sm, Overlay[e].name)),
                                      IsWildcard)
                IN  Overlay[e].ports = [j \in DOMAIN wild |-> PublicText(wild[j])]
       /\ (Resolved("caddy")
           /\ SelectSeq(PortsOf(ServiceConfig(sm, "caddy")), IsWildcard) # <<>>)
          => InList("caddy", OverlayNames)

\* caddy declares a wildcard and a non-wildcard binding, web a wildcard one:
\* the overlay is caddy's wildcard binding alone
C8_Witness ==
    /\ pc = "generate_override_file" /\ args.environment = "public"
    /\ Resolved("web") /\ Resolved("caddy")
    /\ PortsOf(ServiceConfig(sm, "web")) = <<P443>>
    /\ Len(PortsOf(ServiceConfig(sm, "caddy"))) = 2
    /\ Len(SelectSeq(PortsOf(ServiceConfig(sm, "caddy")), IsWildcard)) = 1
    /\ Len(Overlay) = 1 /\ Len(Overlay[1].ports) = 1

-----------------------------------------------------------------------------
(* C9: in environment private, every resolved service that declares a port *)
(* mapping has one binding per declared mapping, in declaration order,     *)
(* rendered hostAddress:hostPort:containerPort/protocol, protocol tcp when *)
(* absent; resolved services without mappings have no key, and no service  *)
(* outside the resolved list appears.                                      *)
C9_PrivateOverlay ==
    (pc = "generate_override_file" /\ args.environment = "private")
    => /\ OverlayNames = SelectSeq(enabled_services, HasPorts)
       /\ \A e \in DOMAIN Overlay :
             LET ports == PortsOf(ServiceConfig(sm, Overlay[e].name))
             IN  Overlay[e].ports = [j \in DOMAIN ports |-> PrivateText(ports[j])]

\* a resolved service with two mappings, one without protocol, a resolved
\* service without mappings and an unresolved service with a mapping
C9_Witness ==
    /\ pc = "generate_override_file" /\ args.environment = "private"
    /\ \E a \in DOMAIN enabled_services, b \in DOMAIN enabled_services,
          i \in DOMAIN sm.services :
          /\ Len(PortsOf(ServiceConfig(sm, enabled_services[a]))) = 2
          /\ "protocol" \notin
                DOMAIN PortsOf(ServiceConfig(sm, enabled_services[a]))[1]
          /\ ~HasPorts(enabled_services[b])
          /\ ~Resolved(sm.services[i].name)
          /\ PortsOf(sm.services[i]) # <<>>
    /\ Len(Overlay) = 1 /\ Len(Overlay[1].ports) = 2

-----------------------------------------------------------------------------
(* Vocabulary of the routing document *)

Routing == written["Caddyfile.generated"].data

\* the reverse_proxy lines a routing document can hold
ProxyLineTexts == {ProxyLine(n, c) : n \in NameInputs, c \in ContainerPorts}

\* the reverse_proxy lines of the routing document, in order
ProxyLines == SelectSeq(Routing, LAMBDA line : line \in ProxyLineTexts)

ReverseProxied(service_name) ==
    Get(ServiceConfig(sm, service_name), "reverse_proxy", FALSE)

ReverseProxiedWithPorts(service_name) ==
    ReverseProxied(service_name) /\ HasPorts(service_name)

\* serviceName:containerPort of the first declared mapping
FirstPortProxy(service_name) ==
    ProxyLine(service_name,
              PortsOf(ServiceConfig(sm, service_name))[1].container_port)

-----------------------------------------------------------------------------
(* C10, as stated: the routing document holds one routing block for each   *)
(* resolved service flagged reverse-proxied, in resolved-list order, each  *)
(* proxying to serviceName:containerPort of the service's first declared   *)
(* port mapping; resolved services not flagged produce no block.           *)
C10_AsStated ==
    pc = "generate_caddyfile"
    => LET flagged == SelectSeq(enabled_services, ReverseProxied)
       IN  /\ Len(ProxyLines) = Len(flagged)
           /\ \A k \in DOMAIN flagged :
                 HasPorts(flagged[k]) /\ ProxyLines[k] = FirstPortProxy(flagged[k])

(* C10, amended: one routing block for each resolved service that is       *)
(* flagged reverse-proxied and declares at least one port mapping, in      *)
(* resolved-list order, each proxying to serviceName:containerPort of the  *)
(* first declared mapping; resolved services that are not flagged, or      *)
(* declare no port mapping, produce no block.                              *)
C10_BlocksForProxiedWithPorts ==
    pc = "generate_caddyfile"
    => LET flagged == SelectSeq(enabled_services, ReverseProxiedWithPorts)
       IN  /\ Len(ProxyLines) = Len(flagged)
           /\ \A k \in DOMAIN flagged :
                 ProxyLines[k] = FirstPortProxy(flagged[k])
           /\ Len(Routing) = 4 + 5 * Len(flagged)

\* web, with two mappings to different container ports, and admin are
\* flagged and resolved; caddy, not flagged, is resolved too
C10_Witness ==
    /\ pc = "generate_caddyfile"
    /\ enabled_services = <<"web", "caddy", "admin">>
    /\ PortsOf(ServiceConfig(sm, "web")) = <<P443, P8000>>
    /\ HasPorts("admin")
    /\ Len(ProxyLines) = 2
    /\ ProxyLines[1] = "    reverse_proxy web:8443"

-----------------------------------------------------------------------------
(* C11: every routing document generate_caddyfile produces ends with the   *)
(* inclusion directive import /etc/caddy/addons/*.conf, appended exactly   *)
(* once, after all service blocks, also when the resolved list is empty or *)
(* no resolved service produced a block.  The directive is the last line   *)
(* of the document: only the line break that ends it follows.              *)
C11_ImportDirectiveLast ==
    pc = "generate_caddyfile"
    => LET n == Len(Routing)
       IN  /\ n >= 2
           /\ {k \in DOMAIN Routing : Routing[k] = ImportLine} = {n - 1}
           /\ Routing[n] = ""
           /\ \A k \in DOMAIN Routing :
                 Routing[k] \in ProxyLineTexts => k < n - 1
           /\ written["Caddyfile.generated"].text
              = Join(SubSeq(Routing, 1, n - 2)) \o "\n" \o ImportLine \o "\n"

\* services are resolved, none of them produces a block, and the document
\* is the global options followed by the directive
C11_Witness ==
    /\ pc = "generate_caddyfile"
    /\ enabled_services # <<>>
    /\ ProxyLines = <<>>
    /\ Len(Routing) = 4
    /\ Routing[3] = ImportLine

-----------------------------------------------------------------------------
(* Vocabulary of the substitution property *)

\* the string values of a list of strings
ListStrings(list) == {list[i] : i \in DOMAIN list}

\* the string values of a service, at every depth
ServiceStrings(service_config) ==
    UNION {{p[k] : k \in DOMAIN p \cap {"host_ip", "protocol"}} :
             p \in ListStrings(PortsOf(service_config))}
    \cup ListStrings(Get(service_config, "profiles", <<>>))

\* the string values of a registry, at every depth
RegistryStrings(cfg) ==
    LET global == Get(cfg, "global", EmptyDict)
        services == Get(cfg, "services", <<>>)
        profiles == Get(cfg, "profiles", EmptyDict)
    IN  {global[k] : k \in DOMAIN global}
        \cup UNION {ServiceStrings(services[i]) : i \in DOMAIN services}
        \cup UNION {UNION {ListStrings(profiles[p][k]) : k \in DOMAIN profiles[p]} :
                      p \in DOMAIN profiles}

\* the registry with every string value blanked: its shape, keys and
\* non-string scalars
Blank(s) == ""

BlankPort(p) ==
    [k \in DOMAIN p |-> IF k \in {"host_ip", "protocol"} THEN Blank(p[k]) ELSE p[k]]

BlankService(s) ==
    [k \in DOMAIN s |->
        CASE k = "ports" -> [i \in DOMAIN s[k] |-> BlankPort(s[k][i])]
          [] k = "profiles" -> [i \in DOMAIN s[k] |-> Blank(s[k][i])]
          [] OTHER -> s[k]]

NonStrings(cfg) ==
    [sec \in DOMAIN cfg |->
        CASE sec = "global" -> DOMAIN cfg[sec]
          [] sec = "services" ->
                [i \in DOMAIN cfg[sec] |-> BlankService(cfg[sec][i])]
          [] sec = "profiles" ->
                [p \in DOMAIN cfg[sec] |->
                    [k \in DOMAIN cfg[sec][p] |-> Len(cfg[sec][p][k])]]]

-----------------------------------------------------------------------------
-----------------------------------------------------------------------------
(* Vocabulary of the editing properties *)

\* the step is one operation of the session, of the given name
OpStep(name) == ops' = ops + 1 /\ last_op'.name = name

\* the lines edit_single_port prints for a host port it does not accept
NotNumericLine == "Invalid port number."

OutOfRangeLine == "Invalid port number. Must be between 1-65535."

IpUpdatedLine(new_ip) == "Host IP updated to: " \o new_ip

-----------------------------------------------------------------------------
(* C13: when edit_single_port is given a malformed host port, not numeric  *)
(* or outside 1..65535, the input is rejected and the registry is left     *)
(* exactly as it was before the edit operation began, whatever host        *)
(* address was entered in the same operation; the session continues.       *)
C13_AsStated ==
    [][(/\ OpStep("edit_service_ports")
        /\ \/ InList(NotNumericLine, last_op'.out)
           \/ InList(OutOfRangeLine, last_op'.out))
       => (config' = config /\ menu' = "menu")]_vars

\* an edit that entered a new host address and then a host port that is
\* not a number: both lines were printed
C13_Witness ==
    /\ last_op.name = "edit_service_ports"
    /\ InList(IpUpdatedLine("0.0.0.0"), last_op.out)
    /\ InList(NotNumericLine, last_op.out)
    /\ menu = "menu"

-----------------------------------------------------------------------------
(* Vocabulary of the not-found property *)

NotFoundLine(service_name) == "Service '" \o service_name \o "' not found"

InvalidChoiceLine(n) ==
    "Invalid choice. Please enter a number between 0 and " \o ToString(n) \o "."

\* a choice that names a port index beyond the service's ports; 0 is the
\* way back to the menu, not an index
BeyondPorts(cfg, service_name, choice) ==
    /\ IsInt(choice)
    /\ IntOf[choice] > Len(PortsOf(cfg.services[ServiceIndex(cfg, service_name)]))

\* the operation changes nothing and prints the line
Refused(result, cfg, line) == result = [config |-> cfg, out |-> <<line>>]

-----------------------------------------------------------------------------
(* C14: an interactive operation that references an unknown service name   *)
(* (toggle_service, edit_service_ports) or a port index beyond the         *)
(* service's ports (edit_service_ports) reports the error and leaves the   *)
(* whole registry, in memory and persisted, unchanged, and the session     *)
(* goes on accepting operations.  The first conjunct is about every        *)
(* operation the session could be given in a state it reaches, the second  *)
(* about the operations it performs.                                       *)
C14_UnknownReferenceRefused ==
    /\ []((menu = "menu" /\ "services" \in DOMAIN config)
          => \A service_name \in NameInputs :
                IF ~InServices(config, service_name)
                THEN /\ Refused(toggle_service(config, service_name), config,
                                NotFoundLine(service_name))
                     /\ \A choice \in ChoiceInputs, new_ip \in IpInputs,
                           new_port_str \in PortInputs :
                           Refused(edit_service_ports(config, service_name,
                                       choice, new_ip, new_port_str),
                                   config, NotFoundLine(service_name))
                ELSE \A choice \in ChoiceInputs, new_ip \in IpInputs,
                        new_port_str \in PortInputs :
                        LET ports ==
                                PortsOf(config.services[
                                    ServiceIndex(config, service_name)])
                        IN  (ports # <<>>
                             /\ BeyondPorts(config, service_name, choice))
                            => Refused(edit_service_ports(config, service_name,
                                           choice, new_ip, new_port_str),
                                       config, InvalidChoiceLine(Len(ports))))
    /\ [][(/\ OpStep("toggle_service") \/ OpStep("edit_service_ports")
           /\ "services" \in DOMAIN config
           /\ \/ ~InServices(config, last_op'.service_name)
              \/ \E n \in 1..(MaxPorts + 1) :
                    last_op'.out = <<InvalidChoiceLine(n)>>)
          => /\ config' = config
             /\ storage' = storage
             /\ menu' = "menu"
             /\ \/ last_op'.out = <<NotFoundLine(last_op'.service_name)>>
                \/ \E n \in 1..(MaxPorts + 1) :
                      last_op'.out = <<InvalidChoiceLine(n)>>]_vars

\* an edit that asked for a port index the service does not have, after an
\* operation that changed the registry
C14_Witness ==
    /\ menu = "menu"
    /\ ops = 2
    /\ config # storage
    /\ last_op.name = "edit_service_ports"
    /\ InServices(config, last_op.service_name)
    /\ last_op.out
       = <<InvalidChoiceLine(Len(PortsOf(ServiceConfig(config,
                                                     last_op.service_name))))>>

-----------------------------------------------------------------------------
(* C15, as stated: in an interactive session persisted storage is written  *)
(* only by the explicit save operation: across toggle, edit, view and      *)
(* generate-and-start operations storage stays what was loaded.            *)
C15_AsStated ==
    [][storage' # storage => OpStep("save_config")]_vars

(* C15, amended: persisted storage is written only by the explicit save    *)
(* operation and by the generate-and-start operation, which saves the      *)
(* registry held in memory before it launches the pipeline; both write     *)
(* the whole in-memory registry and leave it as it is.  Across any         *)
(* sequence of toggle, edit and view operations and pipeline steps that    *)
(* contains neither, storage stays what was loaded.                        *)
C15_SaveAndStartWrite ==
    [][storage' # storage
       => /\ OpStep("save_config") \/ OpStep("start_services")
          /\ storage' = config
          /\ config' = config]_vars

\* a session of two operations, a toggle that disabled a service and
\* generate-and-start: storage holds the toggled registry
C15_Witness ==
    /\ menu = "subprocess"
    /\ ops = 2
    /\ last_op.name = "start_services"
    /\ storage = config
    /\ "services" \in DOMAIN storage
    /\ \E i \in DOMAIN storage.services : ~IsEnabled(storage.services[i])

-----------------------------------------------------------------------------
-----------------------------------------------------------------------------
(* Vocabulary of the pipeline properties *)

\* main() is past its call of get_enabled_services
PastResolution == vres.called /\ vres.ok /\ pc # "validated"

-----------------------------------------------------------------------------
(* C17: when profile resolution yields an empty list, no enabled service   *)
(* matching the requested profile, get_enabled_services returns the empty  *)
(* list without error and main() ends the run as a failure, nothing to     *)
(* start: no port overlay, no routing document is written and the          *)
(* orchestration driver is not invoked.                                    *)
C17_EmptyResolutionStops ==
    PastResolution
    => /\ enabled_services = get_enabled_services(sm, args.profile)
       /\ enabled_services = <<>>
          => (pc = "exit1" /\ written = EmptyDict /\ driver = <<>>)
       /\ pc = "exit1" => enabled_services = <<>>

\* a validated registry with enabled services, none of them in the profile
\* asked for
C17_Witness ==
    /\ PastResolution
    /\ pc = "exit1"
    /\ enabled_services = <<>>
    /\ \E i \in DOMAIN sm.services : IsEnabled(sm.services[i])
    /\ written = EmptyDict /\ driver = <<>>

-----------------------------------------------------------------------------
(* C18: in a dry run, after validation and profile resolution succeeded,   *)
(* the pipeline stops after printing the summary: no port overlay and no   *)
(* routing document is written, and no external step (repository clone,    *)
(* secret generation, stopping containers, starting Supabase, starting the *)
(* local services) is performed.                                           *)
C18_DryRunStops ==
    (args.dry_run /\ pc # "idle")
    => /\ written = EmptyDict
       /\ driver = <<>>
       /\ pc \in {"init", "constructed", "validated", "resolved", "done",
                  "exit1", "crashed"}
       /\ (PastResolution /\ enabled_services # <<>>)
          => pc \in {"resolved", "done"}

\* a dry run that validated, resolved services and returned
C18_Witness ==
    /\ args.dry_run
    /\ pc = "done"
    /\ PastResolution
    /\ enabled_services # <<>>
    /\ written = EmptyDict /\ driver = <<>>

-----------------------------------------------------------------------------
(* Vocabulary of the edit-safety property *)

\* no two enabled services of the session's registry share a binding
SessionConflictFree(cfg) ==
    \A p \in EnabledPositions(cfg), q \in EnabledPositions(cfg) :
        p[1] # q[1] => PairAt(cfg, p) # PairAt(cfg, q)

-----------------------------------------------------------------------------
(* C19: an accepted interactive port edit preserves conflict-freedom: if   *)
(* before edit_single_port no two enabled services share a                 *)
(* (hostAddress, hostPort), then after the operation, whatever host        *)
(* address and host port were entered, a changed address with a blank port *)
(* included, still no two enabled services share one.                      *)
C19_AsStated ==
    [][(/\ OpStep("edit_service_ports")
        /\ "services" \in DOMAIN config
        /\ SessionConflictFree(config))
       => SessionConflictFree(config')]_vars

\* an edit that changed the host address only and was reported as done,
\* after which two enabled services share a binding
C19_Witness ==
    /\ menu = "menu"
    /\ last_op.name = "edit_service_ports"
    /\ last_op.out = <<IpUpdatedLine("0.0.0.0"), UpdatedMsg>>
    /\ ops = 2
    /\ ~SessionConflictFree(config)
    /\ SessionConflictFree(storage)

-----------------------------------------------------------------------------
(* Vocabulary of the conflict-key property *)

\* the port mapping declared at a position
PortAt(cfg, p) == cfg.services[p[1]].ports[p[2]]

-----------------------------------------------------------------------------
====
